---------------------------- MODULE Spec2Model ----------------------------
(***************************************************************************)
(* A model of snmp_cache.SnmpCache (src/snmp_cache/cache.py): the schema   *)
(* store filled by load_mibs and its cross-MIB resolution pass, the        *)
(* per-(mib, table) cache written by get_table, the age accessors, and the *)
(* instance lock that the three operations take.  Threads call the public  *)
(* methods concurrently; every read or write of self.mibs, self._cache and *)
(* self._lock is placed in the step where the source performs it.          *)
(***************************************************************************)
EXTENDS Naturals, Integers, Sequences, FiniteSets, TLC

VARIABLES
    mibs,           \* self.mibs: ordered dict  MIB name -> MIB content
    _cache,         \* self._cache: mib -> table -> entry
    _lock,          \* self._lock: the thread holding it, or None
    cache_enabled,  \* self.cache_enabled (constructor argument)
    max_cache_age,  \* self.max_cache_age, minutes (constructor argument)
    now,            \* the wall clock read by time(), in seconds
    pc,             \* per thread: the position inside the method it runs
    call,           \* per thread: the method called and its arguments
    loc,            \* per thread: the local variables of the running method
    ret,            \* what the last step delivered, if it ended a call: the thread,
                    \* the call, and the value returned or the exception raised
    ops             \* number of calls made so far (bounded by MaxOps)

vars == <<mibs, _cache, _lock, cache_enabled, max_cache_age, now, pc, call, loc, ret, ops>>

---------------------------------------------------------------------------
(* Bounds of the model. *)

\* calls made by all threads together in one behaviour of Spec
MaxOps == 2
\* the clock runs for MaxMinutes minutes
MaxMinutes == 2
\* raw rows the transport returns for one table
MaxRows == 2
\* files listed in the directories of one load_mibs call of SpecLoad
MaxFiles == 3

\* dotted components of a raw row index of SpecRows
MaxParts == 7
\* index fields of a table row of SpecRows
MaxIndexFields == 2
\* calls made on the instance in SpecReload
MaxCalls == 3

\* time() - min(...)*60: minutes to seconds
SecondsPerMinute == 60

Threads == {"t1", "t2"}
None == "None"

---------------------------------------------------------------------------
(* Python dicts whose iteration order the code depends on are sequences of *)
(* [k, v] items in insertion order.                                        *)

DKeys(d) == {d[i].k : i \in DOMAIN d}
DHas(d, key) == key \in DKeys(d)
DIdx(d, key) == CHOOSE i \in DOMAIN d : d[i].k = key
DGet(d, key) == d[DIdx(d, key)].v
\* d[key] = val: a new key is appended, an existing key keeps its position
DPut(d, key, val) ==
    IF DHas(d, key) THEN [d EXCEPT ![DIdx(d, key)].v = val]
    ELSE Append(d, [k |-> key, v |-> val])

EmptyDict == <<>>

---------------------------------------------------------------------------
(* The parsed MIB files (the JSON documents json.load returns).  A MIB is  *)
(* [imports, objs]: its "imports" item (imported MIB -> symbols, with the  *)
(* "class" key the JSON carries) and its other items, in file order.       *)

TypeRef(t) == [class |-> "type", type |-> t]
ObjColumn(oid, t) == [class |-> "objecttype", oid |-> oid, syntax |-> TypeRef(t)]
ObjRow(oid, idx) == [class |-> "objecttype", oid |-> oid, nodetype |-> "row", indices |-> idx]
ObjTable(oid) == [class |-> "objecttype", oid |-> oid]
TypeDef(t) == [class |-> "textualconvention", type |-> TypeRef(t)]
ObjIdentity(oid) == [class |-> "objectidentity", oid |-> oid]

ImportsClass == [k |-> "class", v |-> {}]
Imp(m, syms) == [k |-> m, v |-> syms]

ImpBC == <<ImportsClass, Imp("B", {"Foo"}), Imp("C", {"Bar"})>>
ImpCB == <<ImportsClass, Imp("C", {"Bar"}), Imp("B", {"Foo"})>>
ImpB == <<ImportsClass, Imp("B", {"Foo"})>>
ImpD == <<ImportsClass, Imp("D", {"Foo"})>>
ImpSnmpB == <<ImportsClass, Imp("SNMPv2-TC", {"Foo"}), Imp("B", {"Foo"})>>
ImpNone == <<ImportsClass>>

\* MIB A: table tbl (row, indexed by idx) with columns idx and col, and tbl2
MibA(imps) ==
    [imports |-> imps,
     objs |-> << [k |-> "tbl", v |-> ObjRow(<<"1">>, <<[module |-> "A", object |-> "idx"]>>)],
                 [k |-> "idx", v |-> ObjColumn(<<"1", "1">>, "Integer32")],
                 [k |-> "col", v |-> ObjColumn(<<"1", "2">>, "Foo")],
                 [k |-> "tbl2", v |-> ObjTable(<<"2">>)] >>]
\* MIB B: defines Foo
MibB(foo) == [imports |-> ImpNone, objs |-> << [k |-> "Foo", v |-> foo] >>]
\* MIB C: defines Bar
MibC(bar) == [imports |-> ImpNone, objs |-> << [k |-> "Bar", v |-> bar] >>]

\* what a file that is never parsed stands for
NoContent == [imports |-> <<>>, objs |-> <<>>]
JsonFile(name, content) == [fname |-> name, json |-> TRUE, ok |-> TRUE, content |-> content]
\* a .json file that open() or json.load() rejects
BadFile == [fname |-> "X", json |-> TRUE, ok |-> FALSE, content |-> NoContent]
\* a file whose name does not end in .json
TxtFile == [fname |-> "README", json |-> FALSE, ok |-> TRUE, content |-> NoContent]

FileA_BC == JsonFile("A", MibA(ImpBC))
FileA_CB == JsonFile("A", MibA(ImpCB))
FileA_B == JsonFile("A", MibA(ImpB))
FileA_D == JsonFile("A", MibA(ImpD))
FileA_SnmpB == JsonFile("A", MibA(ImpSnmpB))
FileB_Bar == JsonFile("B", MibB(TypeDef("Bar")))
FileB_Base == JsonFile("B", MibB(TypeDef("OctetString")))
FileB_NoType == JsonFile("B", MibB(ObjIdentity(<<"9">>)))
FileC_Int == JsonFile("C", MibC(TypeDef("Integer32")))
FileC_Cyc == JsonFile("C", MibC(TypeDef("Foo")))

Dir(files) == [isdir |-> TRUE, files |-> files]
NotADir == [isdir |-> FALSE, files |-> <<>>]

---------------------------------------------------------------------------
(* load_mibs, lines 57-65: the files the two loops visit, in order.        *)

\* line 57: a str becomes a one-element list, a list is taken as is,
\* anything else is the empty list.  An argument is [kind, val]; val holds
\* the path(s) as a sequence, a str argument's single path at val[1].
MibDirList(mib_dirs) ==
    IF mib_dirs.kind = "str" THEN <<mib_dirs.val[1]>>
    ELSE IF mib_dirs.kind = "list" THEN mib_dirs.val
    ELSE <<>>

RECURSIVE JsonFilesOf(_)
\* lines 59-62: every file of every listed directory whose name ends in .json
JsonFilesOf(dirs) ==
    IF dirs = <<>> THEN <<>>
    ELSE LET d == Head(dirs)
         IN (IF d.isdir THEN SelectSeq(d.files, LAMBDA f : f.json) ELSE <<>>)
            \o JsonFilesOf(Tail(dirs))

---------------------------------------------------------------------------
(* load_mibs, lines 67-79: the cross-MIB resolution pass.                  *)

\* line 75: str(import_key).startswith('SNMP'), over the names of the model
StartsWithSNMP(import_key) == import_key \in {"SNMPv2-TC", "SNMPv2-SMI"}

\* item['syntax'].get('type', None)
SyntaxType(syntax) == IF "type" \in DOMAIN syntax THEN syntax.type ELSE None

\* line 70
NeedsResolution(item) ==
    /\ item.class = "objecttype"
    /\ "syntax" \in DOMAIN item
    /\ "class" \in DOMAIN item.syntax
    /\ item.syntax.class = "type"

RECURSIVE ResolveImports(_, _, _, _)
\* lines 73-79 for one object: the imports are scanned in order from
\* position i; every match rebinds item['syntax'] and the scan goes on with
\* the new syntax.  self.mibs[import_key] raises KeyError for a MIB that is
\* not loaded.
ResolveImports(item, imps, i, store) ==
    IF i > Len(imps) THEN [item |-> item, raised |-> FALSE]
    ELSE LET import_key == imps[i].k
             import_item == imps[i].v
             ty == SyntaxType(item.syntax)
         IN IF import_key # "class" /\ ~StartsWithSNMP(import_key) /\ ty \in import_item
            THEN IF ~DHas(store, import_key)
                 THEN [item |-> item, raised |-> TRUE]
                 ELSE LET src == DGet(store, import_key).objs
                      IN IF DHas(src, ty) /\ "type" \in DOMAIN DGet(src, ty)
                         THEN ResolveImports([item EXCEPT !.syntax = DGet(src, ty).type],
                                             imps, i + 1, store)
                         ELSE ResolveImports(item, imps, i + 1, store)
            ELSE ResolveImports(item, imps, i + 1, store)

RECURSIVE ResolveObjs(_, _, _, _)
\* lines 69-79 for one MIB: its items in order from position j; stops at the
\* first KeyError, keeping the items rewritten before it
ResolveObjs(objs, imps, j, store) ==
    IF j > Len(objs) THEN [objs |-> objs, raised |-> FALSE]
    ELSE IF NeedsResolution(objs[j].v)
         THEN LET r == ResolveImports(objs[j].v, imps, 1, store)
                  objs2 == [objs EXCEPT ![j].v = r.item]
              IN IF r.raised THEN [objs |-> objs2, raised |-> TRUE]
                 ELSE ResolveObjs(objs2, imps, j + 1, store)
         ELSE ResolveObjs(objs, imps, j + 1, store)

\* one iteration of the loop of line 68: the MIB content is rewritten in
\* place, looking imported types up in the store self.mibs names
ResolveMib(mib_content, store) ==
    LET r == ResolveObjs(mib_content.objs, mib_content.imports, 1, store)
    IN [content |-> [mib_content EXCEPT !.objs = r.objs], raised |-> r.raised]

RECURSIVE ResolveFrom(_, _)
ResolveFrom(store, n) ==
    IF n > Len(store) THEN [store |-> store, raised |-> FALSE]
    ELSE LET r == ResolveMib(store[n].v, store)
             store2 == [store EXCEPT ![n].v = r.content]
         IN IF r.raised THEN [store |-> store2, raised |-> TRUE]
            ELSE ResolveFrom(store2, n + 1)

\* the whole pass of lines 68-79 over a store nobody else touches
ResolvePass(store) == ResolveFrom(store, 1)

---------------------------------------------------------------------------
(* Values.  A raw value the transport delivers is an integer, a byte       *)
(* string, a timedelta, an ipaddress.IPv4Address, or (the row index, under *)
(* key "0") a dotted string given by its components; each component is     *)
(* numeric text or not.                                                    *)

IntVal(n) == [tag |-> "int", n |-> n]
BytesVal(bs) == [tag |-> "bytes", bs |-> bs]
\* a timedelta, given by its ticks
DurationVal(n) == [tag |-> "timedelta", n |-> n]
\* an ipaddress.IPv4Address, given by its octets
AddrVal(bs) == [tag |-> "ipv4", bs |-> bs]
DottedVal(parts) == [tag |-> "str", parts |-> parts]
BoolVal(b) == [tag |-> "bool", b |-> b]
\* a str result, given by its characters
TextVal(chars) == [tag |-> "text", chars |-> chars]
Wrapped(value, label) == [tag |-> "enum", value |-> value, enumeration |-> label]
Num(n) == [num |-> TRUE, n |-> n]
NotNum == [num |-> FALSE, n |-> 0]

\* str.lower() over the type and class names of the model
Lower(s) ==
    CASE s = "MacAddress" -> "macaddress"
      [] s = "InetAddress" -> "inetaddress"
      [] s = "IpAddress" -> "ipaddress"
      [] s = "TruthValue" -> "truthvalue"
      [] s = "Bits" -> "bits"
      [] s = "BITS" -> "bits"
      [] OTHER -> s

HexChars == <<"0", "1", "2", "3", "4", "5", "6", "7", "8", "9", "a", "b", "c", "d", "e", "f">>

RECURSIVE HexOf(_)
\* hex(n)[2:] for n >= 0
HexOf(n) == IF n < 16 THEN <<HexChars[n + 1]>> ELSE HexOf(n \div 16) \o <<HexChars[(n % 16) + 1]>>

\* str.zfill(2)
Zfill2(chars) == IF Len(chars) = 0 THEN <<"0", "0">> ELSE IF Len(chars) = 1 THEN <<"0">> \o chars ELSE chars

RECURSIVE HexConcat(_)
HexConcat(ns) == IF ns = <<>> THEN <<>> ELSE Zfill2(HexOf(Head(ns))) \o HexConcat(Tail(ns))

\* helpers.mac_binary_to_hex: iterating an int raises TypeError
mac_binary_to_hex(value) ==
    IF value.tag = "bytes" THEN [raised |-> FALSE, val |-> TextVal(HexConcat(value.bs))]
    ELSE [raised |-> TRUE, val |-> value]

\* helpers.ip_binary_to_str: str(ip) for an IPv4Address, else the bytes in
\* decimal, joined by dots (the str is given by its dot-separated
\* components); iterating an int or a timedelta raises TypeError
ip_binary_to_str(value) ==
    IF value.tag \in {"bytes", "ipv4"} THEN [raised |-> FALSE, val |-> DottedVal([i \in DOMAIN value.bs |-> Num(value.bs[i])])]
    ELSE [raised |-> TRUE, val |-> value]

\* bytes.decode('utf-8') succeeds on the ASCII bytes of the model; 0x80-0xff
\* standing alone are invalid
Utf8Valid(bs) == \A i \in DOMAIN bs : bs[i] < 128

RECURSIVE FromBytesIs(_, _)
\* y == int.from_bytes(bs, 'big') for y >= 0, digit by digit from the last
\* byte (Python integers have no width)
FromBytesIs(bs, y) ==
    IF bs = <<>> THEN y = 0
    ELSE y % 256 = bs[Len(bs)] /\ FromBytesIs(SubSeq(bs, 1, Len(bs) - 1), y \div 256)

\* EqualsCode matching a one-character str by its character code as well
EqualsCode_Loose(code, value) ==
    \/ value.tag = "int" /\ value.n = code
    \/ value.tag = "bool" /\ code = (IF value.b THEN 1 ELSE 0)
    \/ value.tag = "text" /\ value.chars = <<code>>

\* item == return_value for an integer enumeration code: an int compares by
\* value, True and False compare equal to 1 and 0, nothing else is equal
EqualsCode(code, value) ==
    \/ value.tag = "int" /\ value.n = code
    \/ value.tag = "bool" /\ code = (IF value.b THEN 1 ELSE 0)

\* the first item of an ordered label -> code dict whose code matches
FirstLabel(d, matches(_)) ==
    LET hits == {i \in DOMAIN d : matches(d[i].v)}
    IN IF hits = {} THEN None
       ELSE d[CHOOSE i \in hits : \A j \in hits : i <= j].k

\* SnmpCache.__format_snmp_field: [raised, val]
FormatSnmpField(value, mib_syntax) ==
    IF "class" \notin DOMAIN mib_syntax \/ "type" \notin DOMAIN mib_syntax
    THEN [raised |-> FALSE, val |-> value]
    ELSE IF Lower(mib_syntax.class) # "type"
    THEN [raised |-> FALSE, val |-> value]
    ELSE LET ty == Lower(mib_syntax.type)
             fixed ==
                 IF ty = "macaddress" THEN mac_binary_to_hex(value)
                 ELSE IF ty = "inetaddress" \/ ty = "ipaddress" THEN ip_binary_to_str(value)
                 ELSE IF ty = "truthvalue"
                 THEN [raised |-> FALSE, val |-> BoolVal(value.tag = "int" /\ value.n = 1)]
                 ELSE IF value.tag = "int" THEN [raised |-> FALSE, val |-> value]
                 ELSE IF value.tag = "bytes" /\ Utf8Valid(value.bs)
                 THEN [raised |-> FALSE, val |-> TextVal(value.bs)]
                 ELSE [raised |-> FALSE, val |-> value]
             enum == IF "constraints" \in DOMAIN mib_syntax /\ "enumeration" \in DOMAIN mib_syntax.constraints
                     THEN mib_syntax.constraints.enumeration ELSE <<>>
         IN IF ty = "bits"
            THEN LET bits == IF "bits" \in DOMAIN mib_syntax THEN mib_syntax.bits ELSE <<>>
                 IN IF bits = <<>> THEN [raised |-> FALSE, val |-> value]
                    ELSE IF value.tag # "bytes" THEN [raised |-> TRUE, val |-> value]
                    ELSE LET x == FirstLabel(bits, LAMBDA y : FromBytesIs(value.bs, y))
                         IN [raised |-> FALSE, val |-> IF x # None THEN Wrapped(value, x) ELSE value]
            ELSE IF fixed.raised THEN fixed
            ELSE LET key == FirstLabel(enum, LAMBDA item : EqualsCode(item, fixed.val))
                 IN [raised |-> FALSE, val |-> IF key # None THEN Wrapped(fixed.val, key) ELSE fixed.val]

RECURSIVE HexJoin(_)
\* the hex digits of each number, one after the other, nothing padded
HexJoin(ns) == IF ns = <<>> THEN <<>> ELSE HexOf(Head(ns)) \o HexJoin(Tail(ns))

\* mac_decimal_to_hex without the zfill(2)
mac_decimal_to_hex_NoPad(parts) ==
    IF parts = <<>> \/ \E i \in DOMAIN parts : ~parts[i].num
    THEN [raised |-> TRUE, val |-> TextVal(<<>>)]
    ELSE [raised |-> FALSE, val |-> TextVal(HexJoin([i \in DOMAIN parts |-> parts[i].n]))]

\* helpers.mac_decimal_to_hex over the components of the joined slice:
\* int(octet) raises ValueError on text that is no number (an empty slice
\* joins to '', whose single component '' is no number)
mac_decimal_to_hex(parts) ==
    IF parts = <<>> \/ \E i \in DOMAIN parts : ~parts[i].num
    THEN [raised |-> TRUE, val |-> TextVal(<<>>)]
    ELSE [raised |-> FALSE, val |-> TextVal(HexConcat([i \in DOMAIN parts |-> parts[i].n]))]

\* value.split('.')[a:b]: a slice is cut to the components there are
Slice(parts, a, b) == SubSeq(parts, a + 1, IF b < Len(parts) THEN b ELSE Len(parts))

RECURSIVE IndexFields(_, _, _, _, _)
\* SnmpCache._mib_table_index, the loop of lines 171-199 from the n-th index
\* reference with the cursor at index_pos.  A failure in the MAC or IP branch
\* is logged and ends the decoding; the handler of the integer branch builds
\* its message from self.mibs[mib]['mib_table'], which raises KeyError.
IndexFields(value, indices, n, index_pos, acc) ==
    IF n > Len(indices) THEN acc
    ELSE LET table_index == indices[n]
             store == acc.store
         IN IF ~(DHas(store, table_index.module) /\ DHas(DGet(store, table_index.module).objs, table_index.object))
            THEN IndexFields(value, indices, n + 1, index_pos, acc)
            ELSE LET obj == DGet(DGet(store, table_index.module).objs, table_index.object)
                 IN IF "syntax" \notin DOMAIN obj THEN [acc EXCEPT !.raised = TRUE]
                    ELSE LET isType == obj.syntax.class = "type"
                             ty == Lower(obj.syntax.type)
                         IN IF isType /\ ty = "macaddress"
                            THEN IF value.tag # "str" THEN acc
                                 ELSE LET r == mac_decimal_to_hex(Slice(value.parts, index_pos, index_pos + 6))
                                      IN IF r.raised THEN acc
                                         ELSE IndexFields(value, indices, n + 1, index_pos + 6,
                                                          [acc EXCEPT !.row = DPut(@, table_index.object, r.val)])
                            ELSE IF isType /\ ty = "inetaddress"
                            THEN IF value.tag # "str" THEN acc
                                 ELSE IndexFields(value, indices, n + 1, index_pos + 4,
                                                  [acc EXCEPT !.row = DPut(@, table_index.object,
                                                        DottedVal(Slice(value.parts, index_pos, index_pos + 4)))])
                            ELSE IF value.tag # "str" THEN [acc EXCEPT !.raised = TRUE]
                                 ELSE LET one == Slice(value.parts, index_pos, index_pos + 1)
                                      IN IF one = <<>> \/ ~one[1].num THEN [acc EXCEPT !.raised = TRUE]
                                         ELSE IndexFields(value, indices, n + 1, index_pos + 1,
                                                          [acc EXCEPT !.row = DPut(@, table_index.object, IntVal(one[1].n))])

\* SnmpCache._mib_table_index: [row, raised]
MibTableIndex(value, mib, mib_table, return_value, store) ==
    LET tbl == DGet(DGet(store, mib).objs, mib_table)
        nodetype == IF "nodetype" \in DOMAIN tbl THEN tbl.nodetype ELSE None
    IN IF nodetype # "row" \/ "indices" \notin DOMAIN tbl
       THEN [row |-> return_value, raised |-> FALSE]
       ELSE LET r == IndexFields(value, tbl.indices, 1, 0, [row |-> return_value, raised |-> FALSE, store |-> store])
            IN [row |-> r.row, raised |-> r.raised]

---------------------------------------------------------------------------
(* get_table, lines 113-133: raw rows to resolved rows.                    *)

RECURSIVE FindOid(_, _, _)
\* lines 119-120: the first item of the MIB whose oid is the wanted one
FindOid(objs, oid, i) ==
    IF i > Len(objs) THEN 0
    ELSE IF "oid" \in DOMAIN objs[i].v /\ objs[i].v.oid = oid THEN i
    ELSE FindOid(objs, oid, i + 1)

RECURSIVE ResolveRow(_, _, _, _, _, _)
\* lines 117-130 for one raw row, from its i-th key: [row, raised]
ResolveRow(raw_row, i, mib, table, table_row, store) ==
    IF i > Len(raw_row) THEN [row |-> table_row, raised |-> FALSE]
    ELSE IF ~DHas(store, mib) \/ ~DHas(DGet(store, mib).objs, table)
            \/ "oid" \notin DOMAIN DGet(DGet(store, mib).objs, table)
    THEN [row |-> table_row, raised |-> TRUE]
    ELSE LET key == raw_row[i].k
             value == raw_row[i].v
             objs == DGet(store, mib).objs
             j == FindOid(objs, Append(DGet(objs, table).oid, key), 1)
         IN IF j # 0
            THEN IF "syntax" \in DOMAIN objs[j].v
                 THEN LET f == FormatSnmpField(value, objs[j].v.syntax)
                      IN IF f.raised THEN [row |-> table_row, raised |-> TRUE]
                         ELSE ResolveRow(raw_row, i + 1, mib, table, DPut(table_row, objs[j].k, f.val), store)
                 ELSE ResolveRow(raw_row, i + 1, mib, table, DPut(table_row, objs[j].k, value), store)
            ELSE IF key = "0"
                 THEN LET r == MibTableIndex(value, mib, table, table_row, store)
                      IN IF r.raised THEN [row |-> r.row, raised |-> TRUE]
                         ELSE ResolveRow(raw_row, i + 1, mib, table, r.row, store)
                 ELSE ResolveRow(raw_row, i + 1, mib, table, DPut(table_row, key, value), store)

RECURSIVE ResolveRows_Prepends(_, _, _, _, _, _)
\* ResolveRows putting each new row in front of table_data
ResolveRows_Prepends(raw_rows, mib, table, query_time, table_data, store) ==
    IF raw_rows = <<>> THEN [table_data |-> table_data, raised |-> FALSE]
    ELSE LET r == ResolveRow(Head(raw_rows), 1, mib, table,
                             <<[k |-> "_query_time", v |-> query_time]>>, store)
         IN IF r.raised THEN [table_data |-> table_data, raised |-> TRUE]
            ELSE ResolveRows_Prepends(Tail(raw_rows), mib, table, query_time, <<r.row>> \o table_data, store)

RECURSIVE ResolveRows(_, _, _, _, _, _)
\* lines 113-131: one table_row per raw row, appended in order; an exception
\* inside a row ends the loop: [table_data, raised]
ResolveRows(raw_rows, mib, table, query_time, table_data, store) ==
    IF raw_rows = <<>> THEN [table_data |-> table_data, raised |-> FALSE]
    ELSE LET r == ResolveRow(Head(raw_rows), 1, mib, table,
                             <<[k |-> "_query_time", v |-> query_time]>>, store)
         IN IF r.raised THEN [table_data |-> table_data, raised |-> TRUE]
            ELSE ResolveRows(Tail(raw_rows), mib, table, query_time, Append(table_data, r.row), store)

---------------------------------------------------------------------------
(* Threads, the lock and the outcome of a call.                            *)

\* what get_cache_table_refresh_time returns: a datetime or None
NoTime == [kind |-> "time", none |-> TRUE, value |-> [datetime |-> 0]]

\* the locals of load_mibs (files still to read, the dict and the keys the
\* pass iterates) and of get_table; prior and cache0 are history values, the
\* store and the cache the call found, which no action reads
NoLoc == [files |-> <<>>, iter |-> <<>>, snap |-> <<>>, prior |-> <<>>,
          raw_rows |-> <<>>, query_time |-> 0, table_data |-> <<>>, cache0 |-> <<>>,
          refresh_time |-> NoTime]
NoCall == [op |-> "none"]
NoRet == [kind |-> "none"]
Raised(e) == [kind |-> "raised", err |-> e]

\* LockFree for a with block that does not wait for the lock
LockFree_NoWait == TRUE

\* with self._lock: entered only when nobody holds the lock (threading.Lock)
LockFree == _lock = None

\* ExitLock for a lock released by hand on the return paths alone
ExitLock_KeptOnRaise(t, raised) == IF raised THEN t ELSE None

\* leaving the with block, by return or by exception, releases the lock
ExitLock(t, raised) == None

\* A call starts on a thread that runs no method.  Threads keep nothing from
\* one call to the next, so which idle thread takes a call makes no
\* difference: it is the first idle one.
CanCall(t, max_ops) ==
    /\ pc[t] = "idle"
    /\ ops < max_ops
    /\ t = "t1" \/ pc["t1"] # "idle"

\* a step that ends no call delivers nothing
NoReturn == ret' = [thread |-> None, call |-> NoCall, out |-> NoRet]

\* a call ends: its frame (arguments and locals) is gone, its outcome stays
\* with the caller
Return(t, value) ==
    /\ pc' = [pc EXCEPT ![t] = "idle"]
    /\ ret' = [thread |-> t, call |-> call[t], out |-> value]
    /\ loc' = [loc EXCEPT ![t] = NoLoc]
    /\ call' = [call EXCEPT ![t] = NoCall]

\* an exception leaves the with block that holds the lock
RaiseLocked(t, e) ==
    /\ _lock' = ExitLock(t, TRUE)
    /\ Return(t, Raised(e))

---------------------------------------------------------------------------
(* load_mibs *)

\* load_mibs_call dropping the cached tables along with the schema store
load_mibs_call_ClearsCache(t, mib_dirs, max_ops) ==
    /\ CanCall(t, max_ops)
    /\ mibs' = EmptyDict
    /\ _cache' = <<>>
    /\ pc' = [pc EXCEPT ![t] = "lm_lock"]
    /\ call' = [call EXCEPT ![t] = [op |-> "load_mibs", mib_dirs |-> mib_dirs]]
    /\ loc' = [loc EXCEPT ![t] = [NoLoc EXCEPT !.files = JsonFilesOf(MibDirList(mib_dirs)),
                                               !.prior = mibs]]
    /\ ops' = ops + 1
    /\ NoReturn /\ UNCHANGED <<_lock, cache_enabled, max_cache_age, now>>

\* lines 56-57: self.mibs is rebound to a new empty dict before the lock is
\* requested.  loc.prior keeps the store the call found (a history value the
\* code does not hold; it is read by no action).
load_mibs_call(t, mib_dirs, max_ops) ==
    /\ CanCall(t, max_ops)
    /\ mibs' = EmptyDict
    /\ pc' = [pc EXCEPT ![t] = "lm_lock"]
    /\ call' = [call EXCEPT ![t] = [op |-> "load_mibs", mib_dirs |-> mib_dirs]]
    /\ loc' = [loc EXCEPT ![t] = [NoLoc EXCEPT !.files = JsonFilesOf(MibDirList(mib_dirs)),
                                               !.prior = mibs]]
    /\ ops' = ops + 1
    /\ NoReturn /\ UNCHANGED <<_cache, _lock, cache_enabled, max_cache_age, now>>

\* line 58
load_mibs_acquire(t) ==
    /\ pc[t] = "lm_lock"
    /\ LockFree
    /\ _lock' = t
    /\ pc' = [pc EXCEPT ![t] = "lm_read"]
    /\ NoReturn /\ UNCHANGED <<mibs, _cache, cache_enabled, max_cache_age, now, call, loc, ops>>

\* lines 59-65, one file per step: self.mibs[name] = json.load(file); an
\* unreadable or malformed file raises out of the call.  After the last file
\* line 68 takes self.mibs.items() of the dict self.mibs names at that moment.
load_mibs_read(t) ==
    /\ pc[t] = "lm_read"
    /\ _lock = t
    /\ IF loc[t].files = <<>>
       THEN /\ pc' = [pc EXCEPT ![t] = "lm_resolve"]
            /\ loc' = [loc EXCEPT ![t].snap = mibs, ![t].iter = [i \in DOMAIN mibs |-> mibs[i].k]]
            /\ NoReturn /\ UNCHANGED <<mibs, _lock, call>>
       ELSE LET f == Head(loc[t].files)
            IN IF f.ok
               THEN /\ mibs' = DPut(mibs, f.fname, f.content)
                    /\ loc' = [loc EXCEPT ![t].files = Tail(@)]
                    /\ NoReturn /\ UNCHANGED <<pc, _lock, call>>
               ELSE /\ RaiseLocked(t, "LoadError")
                    /\ UNCHANGED mibs
    /\ UNCHANGED <<_cache, cache_enabled, max_cache_age, now, ops>>

\* lines 68-79, one MIB of the iterated dict per step.  The items rewritten
\* belong to the dict the loop iterates (loc.snap); imported types are looked
\* up in self.mibs, which is that same dict unless another thread's line 56
\* has rebound self.mibs meanwhile.  After the loop the lock is released
\* (line 81 only logs).
load_mibs_resolve(t) ==
    /\ pc[t] = "lm_resolve"
    /\ _lock = t
    /\ IF loc[t].iter = <<>>
       THEN /\ _lock' = ExitLock(t, FALSE)
            /\ Return(t, [kind |-> "ok"])
            /\ UNCHANGED mibs
       ELSE LET mib_name == Head(loc[t].iter)
                same == mibs = loc[t].snap
                r == ResolveMib(DGet(loc[t].snap, mib_name), mibs)
                snap2 == DPut(loc[t].snap, mib_name, r.content)
            IN /\ mibs' = IF same THEN snap2 ELSE mibs
               /\ IF r.raised
                  THEN RaiseLocked(t, "KeyError")
                  ELSE /\ loc' = [loc EXCEPT ![t].snap = snap2, ![t].iter = Tail(@)]
                       /\ NoReturn /\ UNCHANGED <<pc, _lock, call>>
    /\ UNCHANGED <<_cache, cache_enabled, max_cache_age, now, ops>>

---------------------------------------------------------------------------
(* The cache: self._cache[mib][table] is an entry {max_age, query_time,    *)
(* data}, or the empty dict line 138 puts there first.                     *)

HasEntry(c, mib, table) == mib \in DOMAIN c /\ table \in DOMAIN c[mib]
\* dict.get(field, default)
EntryGet(e, field, default) == IF field \in DOMAIN e THEN e[field] ELSE default
SetItem(f, key, val) == [x \in DOMAIN f \cup {key} |-> IF x = key THEN val ELSE f[x]]
Min(a, b) == IF a <= b THEN a ELSE b

\* IsFresh with the entry's own max age forgotten
IsFresh_GlobalOnly(e, global_max_age, time) ==
    EntryGet(e, "query_time", 0) > time - global_max_age * SecondsPerMinute

\* line 95: query_time > time() - min(max_cache_age, entry max_age)*60
IsFresh(e, global_max_age, time) ==
    EntryGet(e, "query_time", 0) >
        time - Min(global_max_age, EntryGet(e, "max_age", global_max_age)) * SecondsPerMinute

\* lines 92-98: the stored data is returned
CacheHit(c, mib, table, allow_cached) ==
    /\ cache_enabled /\ allow_cached
    /\ HasEntry(c, mib, table)
    /\ IsFresh(c[mib][table], max_cache_age, now)
    /\ "data" \in DOMAIN c[mib][table]

\* NewEntry storing the instance's max age in place of the call's
NewEntry_GlobalAge(query_cache_max_age, query_time, table_data) ==
    [max_age |-> max_cache_age, query_time |-> query_time, data |-> table_data]

\* NewEntry stamped with the time of the write in place of the query's
NewEntry_StampedAtWrite(query_cache_max_age, query_time, table_data) ==
    [max_age |-> query_cache_max_age, query_time |-> now, data |-> table_data]

\* lines 139-143: the entry written after a live query
NewEntry(query_cache_max_age, query_time, table_data) ==
    [max_age |-> query_cache_max_age, query_time |-> query_time, data |-> table_data]

\* line 136: the cache is written only when caching is enabled
WritesCache == cache_enabled

---------------------------------------------------------------------------
(* get_table *)

get_table_call(t, mib, table, allow_cached, query_cache_max_age, max_ops) ==
    /\ CanCall(t, max_ops)
    /\ pc' = [pc EXCEPT ![t] = "gt_lock"]
    /\ call' = [call EXCEPT ![t] = [op |-> "get_table", mib |-> mib, table |-> table,
                                    allow_cached |-> allow_cached,
                                    query_cache_max_age |-> query_cache_max_age]]
    /\ loc' = [loc EXCEPT ![t] = NoLoc]
    /\ ops' = ops + 1
    /\ NoReturn /\ UNCHANGED <<mibs, _cache, _lock, cache_enabled, max_cache_age, now>>

\* line 91
get_table_acquire(t) ==
    /\ pc[t] = "gt_lock"
    /\ LockFree
    /\ _lock' = t
    /\ pc' = [pc EXCEPT ![t] = "gt_cache"]
    /\ loc' = [loc EXCEPT ![t].cache0 = _cache]
    /\ NoReturn /\ UNCHANGED <<mibs, _cache, cache_enabled, max_cache_age, now, call, ops>>

\* lines 92-98: return the cached data, or go on to poll the device
get_table_cache(t) ==
    /\ pc[t] = "gt_cache"
    /\ IF CacheHit(_cache, call[t].mib, call[t].table, call[t].allow_cached)
       THEN /\ _lock' = ExitLock(t, FALSE)
            /\ Return(t, [kind |-> "data", via |-> "cache", data |-> _cache[call[t].mib][call[t].table].data])
       ELSE /\ pc' = [pc EXCEPT ![t] = "gt_poll"]
            /\ NoReturn /\ UNCHANGED <<_lock, loc, call>>
    /\ UNCHANGED <<mibs, _cache, cache_enabled, max_cache_age, now, ops>>

\* lines 100-107: the schema checks
get_table_poll(t) ==
    /\ pc[t] = "gt_poll"
    /\ IF ~DHas(mibs, call[t].mib) THEN RaiseLocked(t, "ValueError: MIB not loaded")
       ELSE IF ~DHas(DGet(mibs, call[t].mib).objs, call[t].table)
       THEN RaiseLocked(t, "ValueError: Object not in MIB")
       ELSE /\ pc' = [pc EXCEPT ![t] = "gt_oid"]
            /\ NoReturn /\ UNCHANGED <<_lock, loc, call>>
    /\ UNCHANGED <<mibs, _cache, cache_enabled, max_cache_age, now, ops>>

\* line 110, the argument self.mibs[mib][table]['oid'] of the transport call
get_table_oid(t) ==
    /\ pc[t] = "gt_oid"
    /\ IF ~DHas(mibs, call[t].mib) \/ ~DHas(DGet(mibs, call[t].mib).objs, call[t].table)
          \/ "oid" \notin DOMAIN DGet(DGet(mibs, call[t].mib).objs, call[t].table)
       THEN RaiseLocked(t, "KeyError")
       ELSE /\ pc' = [pc EXCEPT ![t] = "gt_query"]
            /\ NoReturn /\ UNCHANGED <<_lock, loc, call>>
    /\ UNCHANGED <<mibs, _cache, cache_enabled, max_cache_age, now, ops>>

\* lines 110-111: the transport returns raw rows and query_time = time()
TransportReturns(t, raw_rows) ==
    /\ loc' = [loc EXCEPT ![t].raw_rows = raw_rows, ![t].query_time = now]
    /\ pc' = [pc EXCEPT ![t] = "gt_resolve"]
    /\ NoReturn /\ UNCHANGED <<_lock, call, _cache>>

\* TransportRaises for a get_table that had put the empty entry of line 138
\* in place before it queried
TransportRaises_EntryCleared(t) ==
    /\ RaiseLocked(t, "TransportError")
    /\ _cache' = SetItem(_cache, call[t].mib,
                         SetItem(IF call[t].mib \in DOMAIN _cache THEN _cache[call[t].mib] ELSE <<>>,
                                 call[t].table, <<>>))

\* line 110: the transport raises, and the exception leaves get_table
TransportRaises(t) ==
    /\ RaiseLocked(t, "TransportError")
    /\ UNCHANGED _cache

get_table_transport(t, rows_choices) ==
    /\ pc[t] = "gt_query"
    /\ \/ \E raw_rows \in rows_choices : TransportReturns(t, raw_rows)
       \/ TransportRaises(t)
    /\ UNCHANGED <<mibs, cache_enabled, max_cache_age, now, ops>>

\* lines 113-136: the rows are resolved against self.mibs, their number is
\* checked, and with caching disabled table_data is returned (line 145)
get_table_resolve(t) ==
    /\ pc[t] = "gt_resolve"
    /\ LET r == ResolveRows(loc[t].raw_rows, call[t].mib, call[t].table, loc[t].query_time, <<>>, mibs)
       IN IF r.raised THEN RaiseLocked(t, "KeyError or TypeError")
          ELSE IF Len(r.table_data) # Len(loc[t].raw_rows)
          THEN RaiseLocked(t, "ValueError: Parsed rows does not match returned rows")
          ELSE IF WritesCache
          THEN /\ loc' = [loc EXCEPT ![t].table_data = r.table_data]
               /\ pc' = [pc EXCEPT ![t] = "gt_update"]
               /\ NoReturn /\ UNCHANGED <<_lock, call>>
          ELSE /\ _lock' = ExitLock(t, FALSE)
               /\ Return(t, [kind |-> "data", via |-> "live", data |-> r.table_data])
    /\ UNCHANGED <<mibs, _cache, cache_enabled, max_cache_age, now, ops>>

\* get_table_update without the test of line 137
get_table_update_Always(t) ==
    /\ pc[t] = "gt_update"
    /\ _cache' = SetItem(_cache, call[t].mib, SetItem(<<>>, call[t].table, <<>>))
    /\ pc' = [pc EXCEPT ![t] = "gt_store"]
    /\ NoReturn /\ UNCHANGED <<mibs, _lock, cache_enabled, max_cache_age, now, call, loc, ops>>

\* lines 137-138
get_table_update(t) ==
    /\ pc[t] = "gt_update"
    /\ _cache' = IF call[t].mib \notin DOMAIN _cache
                 THEN SetItem(_cache, call[t].mib, SetItem(<<>>, call[t].table, <<>>))
                 ELSE _cache
    /\ pc' = [pc EXCEPT ![t] = "gt_store"]
    /\ NoReturn /\ UNCHANGED <<mibs, _lock, cache_enabled, max_cache_age, now, call, loc, ops>>

\* lines 139-145: the entry is replaced, the lock released, table_data returned
get_table_store(t) ==
    /\ pc[t] = "gt_store"
    /\ _cache' = SetItem(_cache, call[t].mib,
                         SetItem(_cache[call[t].mib], call[t].table,
                                 NewEntry(call[t].query_cache_max_age, loc[t].query_time, loc[t].table_data)))
    /\ _lock' = ExitLock(t, FALSE)
    /\ Return(t, [kind |-> "data", via |-> "live", data |-> loc[t].table_data])
    /\ UNCHANGED <<mibs, cache_enabled, max_cache_age, now, ops>>

---------------------------------------------------------------------------
(* get_cache_table_refresh_time and get_cache_table_age *)

\* datetime.fromtimestamp(ts)
FromTimestamp(ts) == [datetime |-> ts]

refresh_time_call(t, op, mib, table, max_ops) ==
    /\ CanCall(t, max_ops)
    /\ pc' = [pc EXCEPT ![t] = "rt_lock"]
    /\ call' = [call EXCEPT ![t] = [op |-> op, mib |-> mib, table |-> table]]
    /\ loc' = [loc EXCEPT ![t] = NoLoc]
    /\ ops' = ops + 1
    /\ NoReturn /\ UNCHANGED <<mibs, _cache, _lock, cache_enabled, max_cache_age, now>>

\* line 160
refresh_time_acquire(t) ==
    /\ pc[t] = "rt_lock"
    /\ LockFree
    /\ _lock' = t
    /\ pc' = [pc EXCEPT ![t] = "rt_read"]
    /\ NoReturn /\ UNCHANGED <<mibs, _cache, cache_enabled, max_cache_age, now, call, loc, ops>>

\* lines 161-163; get_cache_table_age goes on to line 156 with the result
refresh_time_read(t) ==
    /\ pc[t] = "rt_read"
    /\ LET found == /\ HasEntry(_cache, call[t].mib, call[t].table)
                    /\ "query_time" \in DOMAIN _cache[call[t].mib][call[t].table]
           value == IF found
                    THEN [kind |-> "time", none |-> FALSE,
                          value |-> FromTimestamp(_cache[call[t].mib][call[t].table].query_time)]
                    ELSE NoTime
       IN IF call[t].op = "get_cache_table_age"
          THEN /\ pc' = [pc EXCEPT ![t] = "age_now"]
               /\ loc' = [loc EXCEPT ![t].refresh_time = value]
               /\ NoReturn /\ UNCHANGED call
          ELSE Return(t, value)
    /\ _lock' = ExitLock(t, FALSE)
    /\ UNCHANGED <<mibs, _cache, cache_enabled, max_cache_age, now, ops>>

\* line 156: datetime.now() - refresh_time, or None
cache_table_age(t) ==
    /\ pc[t] = "age_now"
    /\ Return(t, IF loc[t].refresh_time.none THEN [kind |-> "age", none |-> TRUE, value |-> 0]
                 ELSE [kind |-> "age", none |-> FALSE, value |-> now - loc[t].refresh_time.value.datetime])
    /\ UNCHANGED <<mibs, _cache, _lock, cache_enabled, max_cache_age, now, ops>>

---------------------------------------------------------------------------
(* The clock *)

\* the positions about to read the clock: time() of line 95, time() of line
\* 111 when the transport returns, datetime.now() of line 156
ReadsClock(t) == pc[t] \in {"gt_cache", "gt_query", "age_now"}

\* Time passes, a minute at a time.  A tick commutes with every step that does not read the
\* clock, so the clock is advanced only when some thread is about to read it.
Tick ==
    /\ \E t \in Threads : ReadsClock(t)
    /\ now + SecondsPerMinute <= MaxMinutes * SecondsPerMinute
    /\ now' = now + SecondsPerMinute
    /\ NoReturn /\ UNCHANGED <<mibs, _cache, _lock, cache_enabled, max_cache_age, pc, call, loc, ops>>

---------------------------------------------------------------------------
(* The schema sources of the model. *)

ListArg(files) == [kind |-> "list", val |-> <<Dir(files)>>]

\* the directories handed to load_mibs in Spec
LoadArgs ==
    { ListArg(<<FileA_CB, FileB_Bar, FileC_Int>>),
      ListArg(<<FileB_Bar, BadFile, FileA_CB>>),
      [kind |-> "str", val |-> <<Dir(<<FileB_Bar, TxtFile>>)>>] }

\* the files a directory of SpecLoad may list
LoadFiles ==
    { FileA_BC, FileA_CB, FileA_B, FileA_D, FileA_SnmpB,
      FileB_Bar, FileB_Base, FileB_NoType, FileC_Int, FileC_Cyc, BadFile, TxtFile }

\* what os.listdir may return: up to MaxFiles files of different names
Listings ==
    { l \in UNION { [1..n -> LoadFiles] : n \in 0..MaxFiles } :
        \A i, j \in DOMAIN l : i # j => l[i].fname # l[j].fname }

\* the arguments of load_mibs in SpecLoad: a list of one directory with any
\* listing, a list of two directories of one file each, a path that is no
\* directory before a directory, a single path given as a str, and a value
\* that is neither a str nor a list
LoadArgsAll ==
    { ListArg(l) : l \in Listings }
    \cup { [kind |-> "list", val |-> <<Dir(<<f>>), Dir(<<g>>)>>] : f, g \in LoadFiles }
    \cup { [kind |-> "list", val |-> <<NotADir, Dir(<<f>>)>>] : f \in LoadFiles }
    \cup { [kind |-> "str", val |-> <<Dir(<<f>>)>>] : f \in LoadFiles }
    \cup { [kind |-> "other", val |-> <<>>] }

\* the store a constructor given mib_paths leaves: files read, pass applied
Loaded(files) == ResolvePass([i \in DOMAIN files |-> [k |-> files[i].fname, v |-> files[i].content]]).store

\* the store the constructor leaves when mib_paths names a directory of three
\* MIBs
InitStores == { Loaded(<<FileA_CB, FileB_Bar, FileC_Int>>) }

InitCommon ==
    /\ _cache = <<>>
    /\ _lock = None
    /\ now = 0
    /\ pc = [t \in Threads |-> "idle"]
    /\ call = [t \in Threads |-> NoCall]
    /\ loc = [t \in Threads |-> NoLoc]
    /\ ret = [thread |-> None, call |-> NoCall, out |-> NoRet]
    /\ ops = 0

\* SpecLoad: one thread reloads the schema store, found empty (no mib_paths
\* given to the constructor) or loaded, from every source of the model
InitLoad ==
    /\ InitCommon
    /\ mibs \in {EmptyDict} \cup InitStores
    /\ cache_enabled = TRUE
    /\ max_cache_age = 2

NextLoad ==
    \/ \E a \in LoadArgsAll : load_mibs_call("t1", a, 1)
    \/ load_mibs_acquire("t1")
    \/ load_mibs_read("t1")
    \/ load_mibs_resolve("t1")

SpecLoad == InitLoad /\ [][NextLoad]_vars

---------------------------------------------------------------------------
(* Spec: two threads call the public methods of one instance.              *)

\* what the device answers: the raw rows of a table, keyed by column suffix,
\* key "0" carrying the row index
RawRow(index, val) ==
    << [k |-> "0", v |-> DottedVal(<<Num(index)>>)],
       [k |-> "2", v |-> IntVal(val)],
       [k |-> "7", v |-> IntVal(1)] >>
DeviceRows == << RawRow(5, 1), RawRow(6, 2), RawRow(7, 1), RawRow(8, 2) >>
\* an empty table, or the first MaxRows rows of the device
RawTables == { <<>>, SubSeq(DeviceRows, 1, Min(MaxRows, Len(DeviceRows))) }

QueryKeys == { <<"A", "tbl">>, <<"A", "tbl2">>, <<"B", "tbl">> }
AgeKeys == { <<"A", "tbl">> }
\* the max ages (minutes) given to the constructor and to get_table
Ages == {1, 2}

Init ==
    /\ InitCommon
    /\ mibs \in InitStores
    /\ cache_enabled \in BOOLEAN
    /\ max_cache_age \in Ages

\* every step of a call that has started
Proceeds(t, tables) ==
    \/ load_mibs_acquire(t)
    \/ load_mibs_read(t)
    \/ load_mibs_resolve(t)
    \/ get_table_acquire(t)
    \/ get_table_cache(t)
    \/ get_table_poll(t)
    \/ get_table_oid(t)
    \/ get_table_transport(t, tables)
    \/ get_table_resolve(t)
    \/ get_table_update(t)
    \/ get_table_store(t)
    \/ refresh_time_acquire(t)
    \/ refresh_time_read(t)
    \/ cache_table_age(t)

ThreadNext(t) ==
    \/ \E a \in LoadArgs : load_mibs_call(t, a, MaxOps)
    \/ \E key \in QueryKeys, allow_cached \in BOOLEAN, age \in Ages :
          get_table_call(t, key[1], key[2], allow_cached, age, MaxOps)
    \/ \E key \in AgeKeys, op \in {"get_cache_table_refresh_time", "get_cache_table_age"} :
          refresh_time_call(t, op, key[1], key[2], MaxOps)
    \/ Proceeds(t, RawTables)

Next ==
    \/ \E t \in Threads : ThreadNext(t)
    \/ Tick

Spec == Init /\ [][Next]_vars

---------------------------------------------------------------------------
(* Claims C1-C5, checked under Spec.                                       *)

\* the step of thread t that ends its call
Ends(t) == ret'.thread = t
GetTableKey(c) == <<c.mib, c.table>>

\* C1: with caching enabled and allow_cached true, the cache decision of
\* get_table (lines 92-98) returns the stored data of the (mib, table) entry,
\* and goes nowhere near the transport, exactly when the entry exists and
\* now - query_time < min(max_cache_age, entry max_age) minutes; in every
\* other case the call goes on to the live query (the poll of lines 100-110).
C1_CachedIffFresh ==
    [][\A t \in Threads :
          (pc[t] = "gt_cache" /\ pc'[t] # "gt_cache" /\ cache_enabled /\ call[t].allow_cached)
          => LET mib == call[t].mib
                 table == call[t].table
                 exists == mib \in DOMAIN _cache /\ table \in DOMAIN _cache[mib]
                 e == _cache[mib][table]
                 limit == (IF max_cache_age <= e.max_age THEN max_cache_age ELSE e.max_age) * 60
             IN IF exists /\ now - e.query_time < limit
                THEN /\ Ends(t)
                     /\ ret'.out = [kind |-> "data", via |-> "cache", data |-> e.data]
                     /\ pc'[t] = "idle"
                ELSE /\ ~Ends(t)
                     /\ pc'[t] = "gt_poll"]_vars

\* C1 witness: the entry was stored with max_age 2 under a global max age of
\* 1; read one minute later with allow_cached true, the call polls the device
C1_Witness ==
    \E t \in Threads :
        /\ pc[t] = "gt_poll" /\ cache_enabled /\ call[t].allow_cached
        /\ max_cache_age = 1
        /\ HasEntry(_cache, call[t].mib, call[t].table)
        /\ _cache[call[t].mib][call[t].table].max_age = 2
        /\ now - _cache[call[t].mib][call[t].table].query_time = 60

\* C2: a get_table call that raises (unknown MIB, unknown table, transport
\* failure, an error while the rows are resolved, row-count mismatch) leaves
\* the whole cache map as the call found it when it took the lock.
C2_FailureKeepsCache ==
    [][\A t \in Threads :
          (call[t].op = "get_table" /\ Ends(t) /\ ret'.out.kind = "raised")
          => _cache' = loc[t].cache0 /\ _cache' = _cache]_vars

\* C2 witness: the transport failed on a forced refresh of a key that has an
\* entry, and the entry is there
C2_Witness ==
    /\ ret.out.kind = "raised"
    /\ ret.out.err = "TransportError"
    /\ ret.call.op = "get_table"
    /\ HasEntry(_cache, ret.call.mib, ret.call.table)
    /\ "data" \in DOMAIN _cache[ret.call.mib][ret.call.table]

\* the entry the claim describes, for the call that thread t is ending
EntryOfThisCall(t) ==
    /\ HasEntry(_cache', call[t].mib, call[t].table)
    /\ _cache'[call[t].mib][call[t].table] =
          [max_age |-> call[t].query_cache_max_age,
           query_time |-> loc[t].query_time,
           data |-> ret'.out.data]
    /\ loc[t].query_time <= now

LiveSuccess(t) ==
    /\ call[t].op = "get_table"
    /\ Ends(t)
    /\ ret'.out.kind = "data"
    /\ ret'.out.via = "live"

\* C3 as stated: after every successful live query, whatever triggered it
\* (caching disabled globally included), the entry of (mib, table) is exactly
\* {max_age: requested, query_time: time of the query, data: rows resolved}.
C3_Original ==
    [][\A t \in Threads : LiveSuccess(t) => EntryOfThisCall(t)]_vars

\* C3 amended: that holds whenever caching is enabled; with caching disabled
\* the rows are returned and the cache map is left as it was.
C3_EntryReplaced ==
    [][\A t \in Threads :
          LiveSuccess(t) => IF cache_enabled THEN EntryOfThisCall(t) ELSE _cache' = _cache]_vars

\* C3 witness: a forced refresh (allow_cached false) with caching enabled has
\* just stored its entry
C3_Witness ==
    /\ ret.out.kind = "data" /\ ret.out.via = "live"
    /\ cache_enabled /\ ~ret.call.allow_cached
    /\ ops = MaxOps /\ now > 0
    /\ _cache[ret.call.mib][ret.call.table] =
          [max_age |-> ret.call.query_cache_max_age, query_time |-> now, data |-> ret.out.data]
    /\ Len(ret.out.data) > 0

\* an entry is whole: its three fields, and rows stamped with its query_time
EntryWhole(e) ==
    /\ DOMAIN e = {"max_age", "query_time", "data"}
    /\ \A i \in DOMAIN e.data : e.data[i][1] = [k |-> "_query_time", v |-> e.query_time]

\* the positions where a thread reads the cache: lines 93-98 and 161-162
ReadsCache(t) == pc[t] \in {"gt_cache", "rt_read"}

\* C4: at most one live device query is in flight at a time (for any key, so
\* for each key), and whenever a thread reads the cache every entry in it is
\* whole: never the empty entry of line 138, never fields of two refreshes.
C4_OneQueryNoTornEntry ==
    /\ Cardinality({t \in Threads : pc[t] = "gt_query"}) <= 1
    /\ \A t \in Threads :
          ReadsCache(t) =>
             \A mib \in DOMAIN _cache : \A table \in DOMAIN _cache[mib] : EntryWhole(_cache[mib][table])

\* C4 witness: one thread stands between lines 138 and 139, the empty entry
\* in the map, while another waits for the lock to read that key
C4_Witness ==
    \E t, u \in Threads :
        /\ pc[t] = "gt_store"
        /\ _cache[call[t].mib][call[t].table] = <<>>
        /\ pc[u] \in {"gt_lock", "rt_lock"}
        /\ GetTableKey(call[u]) = GetTableKey(call[t])

\* C5: load_mibs touches the schema store only while it holds the lock, so
\* a get_table call that holds the lock (lines 91-145, where it reads
\* self.mibs at 104-107, 110 and 119-127) sees one store from the check of
\* the MIB name to the last row resolved: no step changes the store meanwhile.
C5_ReloadAtomic ==
    [][\A t \in Threads :
          (_lock = t /\ call[t].op = "get_table") => mibs' = mibs]_vars

---------------------------------------------------------------------------
(* Claim C6, checked under FairSpec.                                       *)

\* The calls of FairSpec: the clock stands still (no step of the lock
\* protocol reads it), every call that can raise is there.
FairInit ==
    /\ InitCommon
    /\ mibs \in InitStores
    /\ cache_enabled = TRUE
    /\ max_cache_age = 1

FairCalls(t) ==
    \/ \E a \in LoadArgs : load_mibs_call(t, a, MaxOps)
    \/ \E key \in QueryKeys :
          get_table_call(t, key[1], key[2], FALSE, 1, MaxOps)
    \/ \E key \in AgeKeys :
          refresh_time_call(t, "get_cache_table_age", key[1], key[2], MaxOps)

\* the device of FairSpec holds one row
FairTables == { SubSeq(DeviceRows, 1, 1) }

FairNext == \E t \in Threads : FairCalls(t) \/ Proceeds(t, FairTables)

\* a thread that is running is scheduled again, and the transport call
\* returns or raises
FairSpec == FairInit /\ [][FairNext]_vars /\ \A t \in Threads : WF_vars(Proceeds(t, FairTables))

\* the positions where a thread waits at `with self._lock`
WaitsForLock(t) == pc[t] \in {"lm_lock", "gt_lock", "rt_lock"}

\* C6: a thread that has left get_table, load_mibs or an age accessor, by
\* return or by exception, does not hold the lock; a thread that asks for the
\* lock does not hold it already; and every thread that waits for the lock
\* gets it.
C6_LockReleased ==
    /\ [](\A t \in Threads : (pc[t] = "idle" \/ WaitsForLock(t)) => _lock # t)
    /\ \A t \in Threads : WaitsForLock(t) ~> (_lock = t)

\* C6 witness: a get_table call has raised while it held the lock and another
\* thread waited for it; the lock is free
C6_Witness ==
    /\ ret.out.kind = "raised"
    /\ ret.call.op = "get_table"
    /\ pc[ret.thread] = "idle"
    /\ _lock = None
    /\ \E u \in Threads : WaitsForLock(u)

---------------------------------------------------------------------------
(* Claims C7-C10, checked under SpecLoad.                                  *)

LoadEnds(t) == call[t].op = "load_mibs" /\ Ends(t)

\* C7: a load that fails on an unreadable or malformed source leaves the
\* store the call found, or the empty store, never the MIBs read before the
\* failing source.
C7_FailedLoadKeepsOrEmpties ==
    [][\A t \in Threads :
          (LoadEnds(t) /\ ret'.out = Raised("LoadError"))
          => (mibs' = loc[t].prior \/ mibs' = EmptyDict)]_vars

RECURSIVE ReadAll(_, _)
\* the files as json.load returns them, keyed by name, nothing resolved
ReadAll(files, store) ==
    IF files = <<>> THEN store
    ELSE ReadAll(Tail(files), DPut(store, Head(files).fname, Head(files).content))
AsRead(c) == ReadAll(JsonFilesOf(MibDirList(c.mib_dirs)), EmptyDict)

\* MIB b is loaded and defines symbol ty with a `type` field
Defines(store, b, ty) ==
    /\ DHas(store, b)
    /\ DHas(DGet(store, b).objs, ty)
    /\ "type" \in DOMAIN DGet(DGet(store, b).objs, ty)

\* the imports of a MIB that list symbol ty
ImportsOf(mib_content, ty) ==
    { imp \in { mib_content.imports[i] : i \in DOMAIN mib_content.imports } :
        imp.k # "class" /\ ~StartsWithSNMP(imp.k) /\ ty \in imp.v }

\* the objects of store[m] the pass looks at: objecttype, syntax of class type
TypedObjs(store, m) ==
    { j \in DOMAIN store[m].v.objs : NeedsResolution(store[m].v.objs[j].v) }

\* no import of the MIB leads to a definition of the type
Unresolvable(store, m, j) ==
    \A imp \in ImportsOf(store[m].v, SyntaxType(store[m].v.objs[j].v.syntax)) :
        ~Defines(store, imp.k, SyntaxType(store[m].v.objs[j].v.syntax))

AllRead(t) == ret'.out # Raised("LoadError")

\* C8: a load whose files were all read ends without an error, and every
\* object whose type no import resolves (the MIB named is not loaded, or does
\* not define the type with a `type` field) has the syntax it was read with.
C8_UnresolvableLeftAsIs ==
    [][\A t \in Threads :
          (LoadEnds(t) /\ AllRead(t))
          => /\ ret'.out.kind = "ok"
             /\ LET raw == AsRead(call[t])
                IN \A m \in DOMAIN raw : \A j \in TypedObjs(raw, m) :
                      Unresolvable(raw, m, j)
                      => mibs'[m].v.objs[j].v.syntax = raw[m].v.objs[j].v.syntax]_vars

\* C9: after a load that ended without error, an object of MIB A whose syntax
\* is {class: type, type: Foo}, where A's imports list Foo under a loaded MIB
\* B that defines Foo with a `type` field, has B's Foo.type as its syntax,
\* whatever else A imports and in whatever order.
C9_ImportedTypeCopied ==
    [][\A t \in Threads :
          (LoadEnds(t) /\ ret'.out.kind = "ok")
          => LET raw == AsRead(call[t])
             IN \A m \in DOMAIN raw : \A j \in TypedObjs(raw, m) :
                   LET foo == SyntaxType(raw[m].v.objs[j].v.syntax)
                   IN \A imp \in ImportsOf(raw[m].v, foo) :
                         Defines(raw, imp.k, foo)
                         => mibs'[m].v.objs[j].v.syntax = DGet(DGet(raw, imp.k).objs, foo).type]_vars

\* C10: the pass applied once more to a store on which it has completed
\* changes no object's syntax: the store it leaves is the store it was given.
C10_PassIdempotent ==
    [][\A t \in Threads :
          (LoadEnds(t) /\ ret'.out.kind = "ok")
          => ResolvePass(mibs').store = mibs']_vars

---------------------------------------------------------------------------
(* SpecRows: one thread makes one get_table call on MIB T, whose table row *)
(* has an index specification and one column taken from the sets below,    *)
(* and the device answers with one raw row taken from the sets below.      *)

IdxNames == <<"i1", "i2", "i3", "i4">>
IndexTypes == {"MacAddress", "InetAddress", "Integer32"}
\* the index specifications: up to MaxIndexFields fields, each of a type
IndexSpecs == UNION { [1..n -> IndexTypes] : n \in 0..MaxIndexFields }

Enum(d) == [enumeration |-> d]
UpDown == << [k |-> "up", v |-> 1], [k |-> "down", v |-> 2] >>
TrueFalse == << [k |-> "true", v |-> 1], [k |-> "false", v |-> 2] >>
BitNames == << [k |-> "b1", v |-> 1], [k |-> "b2", v |-> 2] >>
\* the syntaxes of the column
Syntaxes ==
    { TypeRef("MacAddress"), TypeRef("InetAddress"), TypeRef("IpAddress"),
      TypeRef("TruthValue"), TypeRef("Integer32"), TypeRef("OctetString"),
      TypeRef("BITS"),
      [class |-> "type", type |-> "BITS", bits |-> BitNames],
      [class |-> "type", type |-> "BITS", bits |-> BitNames, constraints |-> Enum(UpDown)],
      [class |-> "type", type |-> "Integer32", constraints |-> Enum(UpDown)],
      [class |-> "type", type |-> "OctetString", constraints |-> Enum(UpDown)],
      [class |-> "type", type |-> "TruthValue", constraints |-> Enum(TrueFalse)],
      [class |-> "Type", type |-> "Integer32", constraints |-> Enum(UpDown)],
      [class |-> "objectidentity", type |-> "MacAddress"],
      [class |-> "type"] }

\* MIB T: table row "row" indexed by the fields of spec, which are columns
\* 1.1, 1.2, ... of the table, and column col (1.9) of syntax col_syntax
MibT(spec, col_syntax) ==
    [imports |-> ImpNone,
     objs |-> << [k |-> "row",
                  v |-> ObjRow(<<"1">>, [i \in DOMAIN spec |-> [module |-> "T", object |-> IdxNames[i]]])] >>
             \o [i \in DOMAIN spec |-> [k |-> IdxNames[i], v |-> ObjColumn(<<"1", IdxNames[i]>>, spec[i])]]
             \o << [k |-> "col", v |-> [class |-> "objecttype", oid |-> <<"1", "9">>, syntax |-> col_syntax]] >>]
StoreT(spec, col_syntax) == << [k |-> "T", v |-> MibT(spec, col_syntax)] >>

RowStores ==
    { StoreT(spec, TypeRef("Integer32")) : spec \in IndexSpecs }
    \cup { StoreT(<<"Integer32">>, syn) : syn \in Syntaxes }

\* raw indexes: n numeric components 10, 11, ... (none for the empty
\* string), those with one component that is no number, and a MAC address
Numeric(n) == [i \in 1..n |-> Num(9 + i)]
\* the index "0.26.43.60.77.94"
MacIndex == << Num(0), Num(26), Num(43), Num(60), Num(77), Num(94) >>
RawIndexes ==
    { Numeric(n) : n \in 0..MaxParts }
    \cup { MacIndex }
    \cup { [Numeric(n) EXCEPT ![j] = NotNum] : n \in 1..MaxParts, j \in 1..MaxParts }

\* the values the device delivers for the column
FieldValues ==
    { IntVal(1), IntVal(2), IntVal(3),
      BytesVal(<<1>>), BytesVal(<<3>>), BytesVal(<<104, 105>>), BytesVal(<<200>>),
      BytesVal(<<0, 26, 43, 60, 77, 94>>), BytesVal(<<10, 0, 0, 1>>),
      DurationVal(5), AddrVal(<<10, 0, 0, 1>>) }

RowOf(parts, value) == << [k |-> "0", v |-> DottedVal(parts)], [k |-> "9", v |-> value] >>
RowTables ==
    { << RowOf(parts, IntVal(2)) >> : parts \in RawIndexes }
    \cup { << RowOf(<<Num(5)>>, value) >> : value \in FieldValues }

InitRows ==
    /\ InitCommon
    /\ mibs \in RowStores
    /\ cache_enabled \in BOOLEAN
    /\ max_cache_age = 1

NextRows ==
    \/ get_table_call("t1", "T", "row", FALSE, 1, 1)
    \/ get_table_acquire("t1")
    \/ get_table_cache("t1")
    \/ get_table_poll("t1")
    \/ get_table_oid("t1")
    \/ get_table_transport("t1", RowTables)
    \/ get_table_resolve("t1")
    \/ get_table_update("t1")
    \/ get_table_store("t1")

SpecRows == InitRows /\ [][NextRows]_vars

---------------------------------------------------------------------------
(* Claims C11, C12, checked under SpecRows.                                *)

\* the step of thread t that leaves the row loop of lines 113-131
Resolves(t) == pc[t] = "gt_resolve" /\ pc'[t] # "gt_resolve"
\* the syntax of column col of MIB T, and the raw row of the call
ColSyntax == DGet(DGet(mibs, "T").objs, "col").syntax
RawIndexOf(t) == loc[t].raw_rows[1][1].v
RawFieldOf(t) == loc[t].raw_rows[1][2].v
\* the column is an Integer32 holding 2: formatting it cannot fail
PlainColumn(t) == ColSyntax = TypeRef("Integer32") /\ RawFieldOf(t) = IntVal(2)

\* C11: whatever the raw index and the index specification, the index
\* decoder raises nothing to get_table: the call goes on past the row loop
\* with one row for the raw row (a column that cannot fail being given).
C11_IndexDecoderNeverRaises ==
    [][\A t \in Threads :
          (Resolves(t) /\ PlainColumn(t))
          => /\ ret'.out.kind # "raised"
             /\ Len(IF Ends(t) THEN ret'.out.data ELSE loc'[t].table_data) = 1]_vars

\* the row index is the single integer the specification asks for: decoding
\* it cannot fail
PlainIndex(t) ==
    /\ DGet(DGet(mibs, "T").objs, "row").indices = <<[module |-> "T", object |-> "i1"]>>
    /\ DGet(DGet(mibs, "T").objs, "i1").syntax = TypeRef("Integer32")
    /\ RawIndexOf(t) = DottedVal(<<Num(5)>>)

\* C12: whatever the shape of the raw value (bytes, integer, duration,
\* native address) and the syntax of its column, formatting the field raises
\* nothing to get_table: the call goes on past the row loop with the row, the
\* field holding a value.
C12_FieldDecodeNeverAborts ==
    [][\A t \in Threads :
          (Resolves(t) /\ PlainIndex(t))
          => /\ ret'.out.kind # "raised"
             /\ LET data == IF Ends(t) THEN ret'.out.data ELSE loc'[t].table_data
                IN Len(data) = 1 /\ DHas(data[1], "col")]_vars

---------------------------------------------------------------------------
(* Claims C13, C14, checked under Spec.                                    *)

\* the (mib, table) keys of a cache map
KeysOf(c) == { <<mib, table>> : mib \in DOMAIN c, table \in UNION { DOMAIN c[m] : m \in DOMAIN c } }
EntryKeys(c) == { key \in KeysOf(c) : HasEntry(c, key[1], key[2]) }
EntryAt(c, key) == c[key[1]][key[2]]

\* thread t is in the cache update (lines 136-143) of a live query for key
\* that has succeeded
UpdatesKey(t, key) ==
    /\ call[t].op = "get_table"
    /\ GetTableKey(call[t]) = key
    /\ pc[t] \in {"gt_update", "gt_store"}
    /\ Ends(t) => ret'.out.kind = "data" /\ ret'.out.via = "live"

\* C13: a key that has an entry keeps having one, whatever is called; the
\* entry of a key appears or changes only in the cache update of a successful
\* live query for that key; and an entry's query_time never decreases.
C13_KeyStateMachine ==
    [][/\ EntryKeys(_cache) \subseteq EntryKeys(_cache')
       /\ \A key \in EntryKeys(_cache') :
             (key \notin EntryKeys(_cache) \/ EntryAt(_cache', key) # EntryAt(_cache, key))
             => \E t \in Threads : UpdatesKey(t, key)
       /\ \A key \in EntryKeys(_cache) :
             ("query_time" \in DOMAIN EntryAt(_cache, key) /\ "query_time" \in DOMAIN EntryAt(_cache', key))
             => EntryAt(_cache', key).query_time >= EntryAt(_cache, key).query_time]_vars

\* C13 witness: a call with allow_cached true found the entry of its key
\* stale, has queried the device later than the entry was, and is about to
\* replace it; the entry is still the one the call found
C13_Witness ==
    \E t \in Threads :
        /\ pc[t] = "gt_store"
        /\ call[t].allow_cached
        /\ HasEntry(loc[t].cache0, call[t].mib, call[t].table)
        /\ _cache[call[t].mib][call[t].table] = loc[t].cache0[call[t].mib][call[t].table]
        /\ _cache[call[t].mib][call[t].table].query_time < loc[t].query_time

\* C14: in every state, a cache entry that has data has a max_age and a
\* query_time with it, and every row of the data carries that query_time in
\* its `_query_time` field: data and query_time come from one refresh.
C14_DataHasItsQueryTime ==
    \A key \in EntryKeys(_cache) :
        LET e == EntryAt(_cache, key)
        IN "data" \in DOMAIN e
           => /\ "query_time" \in DOMAIN e /\ "max_age" \in DOMAIN e
              /\ \A i \in DOMAIN e.data :
                    DHas(e.data[i], "_query_time") /\ DGet(e.data[i], "_query_time") = e.query_time

\* C14 witness: an entry written after the clock has moved holds all the
\* rows of the device, its call having raised the max age to the largest
C14_Witness ==
    \E key \in EntryKeys(_cache) :
        /\ "data" \in DOMAIN EntryAt(_cache, key)
        /\ Len(EntryAt(_cache, key).data) = MaxRows
        /\ EntryAt(_cache, key).query_time > 0
        /\ EntryAt(_cache, key).max_age = 2

---------------------------------------------------------------------------
(* Claims C15, C16, checked under SpecRows.                              *)

\* the index specification of T.row: the types of its fields, in order
SpecOf(store) ==
    LET objs == DGet(store, "T").objs
    IN [i \in DOMAIN DGet(objs, "row").indices |-> DGet(objs, DGet(objs, "row").indices[i].object).syntax.type]

\* components an index field takes: 6 for a MAC, 4 for an IP, 1 otherwise
Width(ty) == IF ty = "MacAddress" THEN 6 ELSE IF ty = "InetAddress" THEN 4 ELSE 1
RECURSIVE SumWidths(_, _)
\* the widths of the first n fields together
SumWidths(spec, n) == IF n = 0 THEN 0 ELSE SumWidths(spec, n - 1) + Width(spec[n])

\* a byte as two hex digits
TwoHex(n) == << HexChars[(n \div 16) + 1], HexChars[(n % 16) + 1] >>
RECURSIVE MacText(_)
MacText(comps) == IF comps = <<>> THEN <<>> ELSE TwoHex(Head(comps).n) \o MacText(Tail(comps))

\* the value of an index field of type ty made of components comps
FieldOf(ty, comps) ==
    IF ty = "MacAddress" THEN TextVal(MacText(comps))
    ELSE IF ty = "InetAddress" THEN DottedVal(comps)
    ELSE IntVal(comps[1].n)

AllNumeric(parts) == \A i \in DOMAIN parts : parts[i].num
\* the rows a call has when it leaves the row loop
RowsAfter(t) == IF Ends(t) THEN ret'.out.data ELSE loc'[t].table_data

\* C15: given a raw index of numeric components, as many as the widths of
\* the index fields together, the row gets every field i as the components
\* from the sum of the widths before i, over the width of i: 2 hex digits a
\* component for a MAC, the dotted string for an IP, the integer otherwise.
C15_IndexFieldsLeftToRight ==
    [][\A t \in Threads :
          (Resolves(t) /\ PlainColumn(t)
             /\ AllNumeric(RawIndexOf(t).parts)
             /\ Len(RawIndexOf(t).parts) = SumWidths(SpecOf(mibs), Len(SpecOf(mibs))))
          => /\ ret'.out.kind # "raised"
             /\ Len(RowsAfter(t)) = 1
             /\ \A i \in DOMAIN SpecOf(mibs) :
                   LET from == SumWidths(SpecOf(mibs), i - 1)
                       comps == SubSeq(RawIndexOf(t).parts, from + 1, from + Width(SpecOf(mibs)[i]))
                   IN /\ DHas(RowsAfter(t)[1], IdxNames[i])
                      /\ DGet(RowsAfter(t)[1], IdxNames[i]) = FieldOf(SpecOf(mibs)[i], comps)]_vars

\* C15 witness: the single MAC field of "0.26.43.60.77.94" is in the row
\* returned, as 001a2b3c4d5e
C15_Witness ==
    /\ ret.out.kind = "data"
    /\ Len(ret.out.data) = 1
    /\ DHas(ret.out.data[1], "i1")
    /\ DGet(ret.out.data[1], "i1") = TextVal(<<"0", "0", "1", "a", "2", "b", "3", "c", "4", "d", "5", "e">>)
    /\ SpecOf(mibs) = <<"MacAddress">>

\* field i of the specification does not find its components in the raw
\* index: fewer are left at its offset than its width, or one is no number
Malformed(spec, parts, i) ==
    LET from == SumWidths(spec, i - 1)
    IN \/ from + Width(spec[i]) > Len(parts)
       \/ \E p \in (from + 1)..(from + Width(spec[i])) : ~parts[p].num

\* C16: when the first index field that does not find its components is a
\* MAC or an IP field, that field is not assigned (no shortened, no
\* non-numeric value) and no later field is decoded.
C16_AddressFieldsExactWidth ==
    [][\A t \in Threads :
          (Resolves(t) /\ PlainColumn(t) /\ ret'.out.kind # "raised")
          => LET spec == SpecOf(mibs)
                 parts == RawIndexOf(t).parts
             IN \A i \in DOMAIN spec :
                   (/\ spec[i] \in {"MacAddress", "InetAddress"}
                    /\ Malformed(spec, parts, i)
                    /\ \A h \in 1..(i - 1) : ~Malformed(spec, parts, h))
                   => \A j \in i..Len(spec) : ~DHas(RowsAfter(t)[1], IdxNames[j])]_vars

---------------------------------------------------------------------------
(* Claim C17, checked under Spec.                                        *)

\* resolved row `row` comes from raw row `raw` of the device of Spec: it
\* holds the value of the raw row's column 2 (under the column's name, or
\* under "2" in a table that has no such column), and its index if decoded
FromRaw(row, raw) ==
    /\ \/ DHas(row, "col") /\ DGet(row, "col") = raw[2].v
       \/ DHas(row, "2") /\ DGet(row, "2") = raw[2].v
    /\ DHas(row, "idx") => DGet(row, "idx") = IntVal(raw[1].v.parts[1].n)

\* C17: a live query that gets past the row loop and the row count has one
\* resolved row for each raw row the transport delivered, in the same order,
\* and these are the rows it returns and the rows it caches.
C17_OneRowPerRawRow ==
    [][\A t \in Threads :
          /\ (Resolves(t) /\ ret'.out.kind # "raised")
             => /\ Len(RowsAfter(t)) = Len(loc[t].raw_rows)
                /\ \A i \in DOMAIN loc[t].raw_rows : FromRaw(RowsAfter(t)[i], loc[t].raw_rows[i])
          /\ (pc[t] = "gt_store" /\ Ends(t))
             => /\ Len(ret'.out.data) = Len(loc[t].raw_rows)
                /\ _cache'[call[t].mib][call[t].table].data = ret'.out.data
                /\ \A i \in DOMAIN loc[t].raw_rows : FromRaw(ret'.out.data[i], loc[t].raw_rows[i])]_vars

\* C17 witness: the call has returned the MaxRows rows of table A.tbl, the
\* first with the first index of the device, the last with the last
C17_Witness ==
    /\ ret.out.kind = "data" /\ ret.out.via = "live"
    /\ ret.call.table = "tbl"
    /\ Len(ret.out.data) = MaxRows
    /\ DGet(ret.out.data[1], "idx") = IntVal(5)
    /\ DGet(ret.out.data[MaxRows], "idx") = IntVal(4 + MaxRows)

---------------------------------------------------------------------------
(* Claim C18, checked under SpecRows.                                    *)

\* the resolved value of raw value v under a type that is not bits, when
\* the decoding of that type applies to v
Resolved(v, ty) ==
    IF ty = "macaddress" THEN TextVal(MacText([i \in DOMAIN v.bs |-> Num(v.bs[i])]))
    ELSE IF ty \in {"inetaddress", "ipaddress"} THEN DottedVal([i \in DOMAIN v.bs |-> Num(v.bs[i])])
    ELSE IF ty = "truthvalue" THEN BoolVal(v = IntVal(1))
    ELSE IF v.tag = "bytes" /\ \A i \in DOMAIN v.bs : v.bs[i] < 128 THEN TextVal(v.bs)
    ELSE v

\* the labels of a label -> code dict whose code the value equals: an
\* integer by its value, a bool (an int in Python) as 1 or 0
LabelsOf(d, value) ==
    { d[i].k : i \in { j \in DOMAIN d :
                         \/ value = IntVal(d[j].v)
                         \/ value = BoolVal(TRUE) /\ d[j].v = 1
                         \/ value = BoolVal(FALSE) /\ d[j].v = 0 } }

HasEnumeration(syn) == "constraints" \in DOMAIN syn /\ "enumeration" \in DOMAIN syn.constraints
IsTypeSyntax(syn) == "class" \in DOMAIN syn /\ "type" \in DOMAIN syn /\ Lower(syn.class) = "type"

---------------------------------------------------------------------------
(* Claim C19, checked under Spec.                                        *)

\* C19: the max age given to a call bounds the age of the cached data the
\* call returns: when get_table(..., allow_cached=True,
\* query_cache_max_age=N) returns data from the cache, the entry was queried
\* less than N minutes before the call, whatever max age the entry was
\* stored with.
C19_CallMaxAgeBoundsCachedData ==
    [][\A t \in Threads :
          (call[t].op = "get_table" /\ Ends(t) /\ ret'.out.kind = "data" /\ ret'.out.via = "cache")
          => now - _cache[call[t].mib][call[t].table].query_time
                < call[t].query_cache_max_age * SecondsPerMinute]_vars

---------------------------------------------------------------------------
(* SpecReload: one caller makes up to MaxCalls calls in sequence, schema   *)
(* reloads among them.                                                     *)

InitReload ==
    /\ InitCommon
    /\ mibs \in InitStores
    /\ cache_enabled = TRUE
    /\ max_cache_age \in Ages

NextReload ==
    \/ \E a \in LoadArgs : load_mibs_call("t1", a, MaxCalls)
    \/ \E key \in QueryKeys, allow_cached \in BOOLEAN :
          get_table_call("t1", key[1], key[2], allow_cached, 2, MaxCalls)
    \/ \E key \in AgeKeys : refresh_time_call("t1", "get_cache_table_age", key[1], key[2], MaxCalls)
    \/ Proceeds("t1", RawTables)
    \/ Tick

SpecReload == InitReload /\ [][NextReload]_vars

---------------------------------------------------------------------------
(* Claim C20, checked under SpecReload.                                  *)

\* a step of a load_mibs call of thread t, its first step included
LoadStep(t) ==
    /\ call'[t].op = "load_mibs" \/ call[t].op = "load_mibs"
    /\ pc'[t] # pc[t] \/ loc'[t] # loc[t]

\* C20: no step of load_mibs changes the cache, and a get_table with
\* allow_cached true that finds a still fresh entry with data for its key
\* returns the cached rows without raising, whether or not the MIB and the
\* table of the key are in the schema store at that time.
C20_ReloadKeepsCache ==
    [][\A t \in Threads :
          /\ LoadStep(t) => _cache' = _cache
          /\ (/\ pc[t] = "gt_cache" /\ pc'[t] # "gt_cache"
              /\ cache_enabled /\ call[t].allow_cached
              /\ HasEntry(_cache, call[t].mib, call[t].table)
              /\ "data" \in DOMAIN _cache[call[t].mib][call[t].table]
              /\ now - _cache[call[t].mib][call[t].table].query_time
                    < Min(max_cache_age, _cache[call[t].mib][call[t].table].max_age) * SecondsPerMinute)
             => /\ Ends(t)
                /\ ret'.out = [kind |-> "data", via |-> "cache",
                               data |-> _cache[call[t].mib][call[t].table].data]]_vars

\* C20 witness: rows cached for a table of MIB A have been returned from the
\* cache after a reload that left the schema store without MIB A
C20_Witness ==
    /\ ret.thread = "t1" /\ ret.call.op = "get_table"
    /\ ret.out.kind = "data" /\ ret.out.via = "cache" /\ ret.out.data # <<>>
    /\ ~DHas(mibs, ret.call.mib)
    /\ pc["t1"] = "idle" /\ _lock = None

=============================================================================
